---- MODULE Spec2Model ----
(***************************************************************************)
(* A model of src/src/data.rs (corona-stats): the date disambiguator       *)
(* parse_date, the row normalizer normalize/to_record, the date range      *)
(* get_dates, the snapshot aggregator get_data/get_data_from and the time  *)
(* series builder get_time_series.                                         *)
(*                                                                         *)
(* Text is a sequence of one-character strings, so that parsing is done    *)
(* character by character.  A calendar date is a record [year, month,      *)
(* day]; a date-time adds [hour, minute, second, leap], where leap is      *)
(* chrono's representation of a leap second (second 59 with a nanosecond   *)
(* part of one second or more).                                            *)
(***************************************************************************)
EXTENDS Integers, Sequences, FiniteSets, TLC

VARIABLES
    pd_s,       \* parse_date: the argument s
    pd_src,     \* parse_date: how the argument was written (ghost)
    pd_ret,     \* parse_date: the returned date-time, "none" before the call
    pd_pc,      \* parse_date: "idle" | "call" | "done"
    nr_row,     \* normalize: the row read from the daily report
    nr_rec,     \* to_record(normalize(row)), "none" before the call
    nr_pc,      \* normalize: "idle" | "call" | "done"
    ts_row,     \* time series row loop: the row read from the time series
    ts_index,   \* the loop's column index
    ts_date,    \* the loop's date
    ts_data,    \* record.data, the mapping built so far
    ts_pc,      \* time series row loop: "idle" | "loop" | "done"
    gd_clock,   \* get_dates: the calendar date of Utc::now()
    gd_now,     \* get_dates: now, the day after the clock's date
    gd_date,    \* get_dates: date
    gd_dates,   \* get_dates: dates, and the list returned
    gd_pc,      \* get_dates: "idle" | "loop" | "done" | "panicked"
    ag_op,      \* the operation run: "idle" | "get_data" | "get_series"
    ag_pc,      \* "idle" | "dates" | "next" | "fetching" | "pushing" | "done" | "failed"
    ag_i,       \* the position of the outer loop in its dates or metrics
    ag_inflight,\* the requests sent and not yet answered
    ag_data,    \* get_data: the records get_data_from returned for the date
    ag_j,       \* get_data: the position of the inner loop in ag_data
    ag_map,     \* get_data: map
    ag_series,  \* get_time_series: series
    ag_ret,     \* what the operation returned: "running" | "Ok" | "Err"
    ag_printed, \* what the operation wrote to the standard output
    ag_log,     \* the requests sent, in order (ghost)
    ag_made,    \* the records built from rows, in order, each with the
                \* positions of its date or metric and of its row (ghost)
    ag_errs     \* the failed fetches and parses so far (ghost)

pd_vars == <<pd_s, pd_src, pd_ret, pd_pc>>

nr_vars == <<nr_row, nr_rec, nr_pc>>

ts_vars == <<ts_row, ts_index, ts_date, ts_data, ts_pc>>

gd_vars == <<gd_clock, gd_now, gd_date, gd_dates, gd_pc>>

ag_vars ==
    <<ag_op, ag_pc, ag_i, ag_inflight, ag_data, ag_j, ag_map, ag_series, ag_ret,
      ag_printed, ag_log, ag_made, ag_errs>>

vars == <<pd_vars, nr_vars, ts_vars, gd_vars, ag_vars>>

----------------------------------------------------------------------------
(* Characters and numerals *)

DigitChars == <<"0", "1", "2", "3", "4", "5", "6", "7", "8", "9">>

Digits == {DigitChars[i] : i \in 1..10}

DigitVal(c) == (CHOOSE i \in 1..10 : DigitChars[i] = c) - 1

IsSpace(c) == c = " "

\* n written in decimal with at least w digits (zero padded), n >= 0
RECURSIVE Pad(_, _)
Pad(n, w) ==
    IF n < 10 /\ w <= 1 THEN <<DigitChars[n + 1]>>
    ELSE Pad(n \div 10, w - 1) \o <<DigitChars[(n % 10) + 1]>>

\* str::trim_left: the text after its leading white space
RECURSIVE TrimLeft(_)
TrimLeft(s) ==
    IF s # <<>> /\ IsSpace(Head(s)) THEN TrimLeft(Tail(s)) ELSE s

\* the number of leading digits of s, at most max
RECURSIVE LeadingDigits(_, _)
LeadingDigits(s, max) ==
    IF max > 0 /\ s # <<>> /\ Head(s) \in Digits
    THEN 1 + LeadingDigits(Tail(s), max - 1)
    ELSE 0

\* the value of a sequence of digits
RECURSIVE DigitsValue(_)
DigitsValue(ds) ==
    IF ds = <<>> THEN 0
    ELSE 10 * DigitsValue(SubSeq(ds, 1, Len(ds) - 1)) + DigitVal(ds[Len(ds)])

\* chrono scan::number(s, min, max): between min and max leading digits
ScanNumber(s, min, max) ==
    LET n == LeadingDigits(s, max)
    IN  IF n < min THEN [ok |-> FALSE]
        ELSE [ok |-> TRUE, v |-> DigitsValue(SubSeq(s, 1, n)),
              rest |-> SubSeq(s, n + 1, Len(s))]

----------------------------------------------------------------------------
(* Calendar *)

IsLeapYear(y) == (y % 4 = 0 /\ y % 100 # 0) \/ y % 400 = 0

DaysInMonth(y, m) ==
    IF m = 2 THEN (IF IsLeapYear(y) THEN 29 ELSE 28)
    ELSE IF m \in {4, 6, 9, 11} THEN 30 ELSE 31

IsValidDate(y, m, d) == m \in 1..12 /\ d >= 1 /\ d <= DaysInMonth(y, m)

Panic == [panic |-> TRUE]

\* NaiveDate::from_ymd: panics on an invalid date
from_ymd(y, m, d) ==
    IF IsValidDate(y, m, d) THEN [year |-> y, month |-> m, day |-> d] ELSE Panic

\* NaiveDate::and_hms: panics on an invalid time of day
and_hms(date, h, mi, sec) ==
    IF date = Panic \/ h \notin 0..23 \/ mi \notin 0..59 \/ sec \notin 0..59
    THEN Panic
    ELSE [year |-> date.year, month |-> date.month, day |-> date.day,
          hour |-> h, minute |-> mi, second |-> sec, leap |-> FALSE]

----------------------------------------------------------------------------
(* chrono's NaiveDateTime::parse_from_str, as parse_date calls it *)

\* the conversion specifiers the formats use: width and signedness of the
\* number each reads (the full year may carry a sign, and then any width)
NumericItem(f) ==
    [k |-> "num", f |-> f, w |-> IF f = "Y" THEN 4 ELSE 2, signed |-> f = "Y"]

\* a format string split into items: %X a number, white space, or a literal
RECURSIVE StrftimeItems(_)
StrftimeItems(fmt) ==
    IF fmt = <<>> THEN <<>>
    ELSE IF Head(fmt) = "%" /\ Len(fmt) >= 2
    THEN <<NumericItem(fmt[2])>> \o StrftimeItems(SubSeq(fmt, 3, Len(fmt)))
    ELSE IF IsSpace(Head(fmt))
    THEN <<[k |-> "space"]>> \o StrftimeItems(Tail(fmt))
    ELSE <<[k |-> "lit", c |-> Head(fmt)]>> \o StrftimeItems(Tail(fmt))

\* one numeric item: leading white space is skipped; a signed item takes a
\* sign and then any number of digits, otherwise 1..w digits
Numeric(s0, w, signed) ==
    LET s == TrimLeft(s0)
    IN  IF signed /\ s # <<>> /\ Head(s) = "-"
        THEN LET r == ScanNumber(Tail(s), 1, Len(s))
             IN  IF r.ok THEN [ok |-> TRUE, v |-> 0 - r.v, rest |-> r.rest]
                 ELSE [ok |-> FALSE]
        ELSE IF signed /\ s # <<>> /\ Head(s) = "+"
        THEN ScanNumber(Tail(s), 1, Len(s))
        ELSE ScanNumber(s, 1, w)

\* the items consumed from left to right; parsed maps the fields read so far
RECURSIVE ParseItems(_, _, _)
ParseItems(items, s, parsed) ==
    IF items = <<>> THEN [ok |-> TRUE, parsed |-> parsed, rest |-> s]
    ELSE LET it == Head(items)
         IN  CASE it.k = "lit" ->
                    IF s # <<>> /\ Head(s) = it.c
                    THEN ParseItems(Tail(items), Tail(s), parsed)
                    ELSE [ok |-> FALSE]
               [] it.k = "space" ->
                    ParseItems(Tail(items), TrimLeft(s), parsed)
               [] it.k = "num" ->
                    LET r == Numeric(s, it.w, it.signed)
                    IN  IF r.ok
                        THEN ParseItems(Tail(items), r.rest, (it.f :> r.v) @@ parsed)
                        ELSE [ok |-> FALSE]

\* Parsed::to_naive_datetime: the fields resolved and range checked.  A year
\* given by its last two digits alone is 20yy below 70 and 19yy from 70 on;
\* a missing second is 0 and second 60 is a leap second.
Resolve(parsed) ==
    LET has(f) == f \in DOMAIN parsed
        year   == IF has("Y") THEN parsed["Y"]
                  ELSE IF parsed["y"] < 70 THEN 2000 + parsed["y"]
                  ELSE 1900 + parsed["y"]
        sec    == IF has("S") THEN parsed["S"] ELSE 0
    IN  IF /\ (has("Y") \/ has("y")) /\ has("m") /\ has("d")
           /\ has("H") /\ has("M")
           /\ IsValidDate(year, parsed["m"], parsed["d"])
           /\ parsed["H"] \in 0..23 /\ parsed["M"] \in 0..59 /\ sec \in 0..60
        THEN [ok |-> TRUE,
              t |-> [year |-> year, month |-> parsed["m"], day |-> parsed["d"],
                     hour |-> parsed["H"], minute |-> parsed["M"],
                     second |-> IF sec = 60 THEN 59 ELSE sec,
                     leap |-> sec = 60]]
        ELSE [ok |-> FALSE]

NoFields == [f \in {} |-> 0]

\* the whole input must be consumed by the items
ParseWithItems(s, items) ==
    LET r == ParseItems(items, s, NoFields)
    IN  IF r.ok /\ r.rest = <<>> THEN Resolve(r.parsed) ELSE [ok |-> FALSE]

parse_from_str(s, fmt) == ParseWithItems(s, StrftimeItems(fmt))

----------------------------------------------------------------------------
(* parse_date *)

\* the four format strings, in the order the loop tries them
Formats ==
    << <<"%", "Y", "-", "%", "m", "-", "%", "d", "T", "%", "H", ":", "%", "M", ":", "%", "S">>,
       <<"%", "Y", "-", "%", "m", "-", "%", "d", " ", "%", "H", ":", "%", "M", ":", "%", "S">>,
       <<"%", "m", "/", "%", "d", "%", "y", " ", "%", "H", ":", "%", "M">>,
       <<"%", "m", "/", "%", "d", "/", "%", "Y", " ", "%", "H", ":", "%", "M">> >>

FormatItems == [i \in 1..Len(Formats) |-> StrftimeItems(Formats[i])]

\* YearCorrection rebuilding the time of day on the minute (the second lost)
YearCorrection_NoSecond(t) ==
    IF t.year < 2000
    THEN and_hms(from_ymd(t.year + 2000, t.month, t.day), t.hour, t.minute, 0)
    ELSE t

\* the Ok(t) arm: a year below 2000 is rebuilt 2000 years later from the
\* accessors of t, otherwise t is returned as it is
YearCorrection(t) ==
    IF t.year < 2000
    THEN and_hms(from_ymd(t.year + 2000, t.month, t.day), t.hour, t.minute, t.second)
    ELSE t

\* Sentinel built from a zero month and day, which from_ymd rejects
Sentinel_ZeroBased == and_hms(from_ymd(1970, 0, 0), 0, 0, 0)

\* the value returned when the loop ends without a match
Sentinel == and_hms(from_ymd(1970, 1, 1), 0, 0, 0)

\* the first of the item lists, from index i on, that parses s (0: none)
RECURSIVE FirstMatch(_, _, _)
FirstMatch(s, items, i) ==
    IF i > Len(items) THEN 0
    ELSE IF ParseWithItems(s, items[i]).ok THEN i
    ELSE FirstMatch(s, items, i + 1)

\* the loop over the formats with its early return, then the fallback
ParseDateWith(s, items) ==
    LET k == FirstMatch(s, items, 1)
    IN  IF k = 0 THEN Sentinel
        ELSE YearCorrection(ParseWithItems(s, items[k]).t)

parse_date(s) == ParseDateWith(s, FormatItems)

----------------------------------------------------------------------------
(* str::parse for u32, i32 and f32 *)

U32MaxDigits == <<"4", "2", "9", "4", "9", "6", "7", "2", "9", "5">>

I32MaxDigits == <<"2", "1", "4", "7", "4", "8", "3", "6", "4", "7">>

I32MinDigits == <<"2", "1", "4", "7", "4", "8", "3", "6", "4", "8">>

AllDigits(s) == \A i \in 1..Len(s) : s[i] \in Digits

RECURSIVE StripZeros(_)
StripZeros(ds) == IF Len(ds) > 1 /\ Head(ds) = "0" THEN StripZeros(Tail(ds)) ELSE ds

\* a <= b for digit sequences of one length
RECURSIVE DigitsLeq(_, _)
DigitsLeq(a, b) ==
    IF a = <<>> THEN TRUE
    ELSE IF Head(a) # Head(b) THEN DigitVal(Head(a)) < DigitVal(Head(b))
    ELSE DigitsLeq(Tail(a), Tail(b))

\* the number the digits denote is at most the one max denotes
AtMost(ds, max) ==
    LET c == StripZeros(ds)
    IN  Len(c) < Len(max) \/ (Len(c) = Len(max) /\ DigitsLeq(c, max))

\* <u32 as FromStr>::from_str: an optional +, then digits, at most u32::MAX.
\* The value is computed for numbers below 2^31 only.
ParseU32(s) ==
    LET ds == IF s # <<>> /\ Head(s) = "+" THEN Tail(s) ELSE s
    IN  IF ds # <<>> /\ AllDigits(ds) /\ AtMost(ds, U32MaxDigits)
        THEN [ok |-> TRUE, v |-> DigitsValue(ds)]
        ELSE [ok |-> FALSE]

\* <i32 as FromStr>::from_str: an optional + or -, then digits, in i32's range.
\* The value is computed for numbers of magnitude below 2^31 only.
ParseI32(s) ==
    LET neg == s # <<>> /\ Head(s) = "-"
        ds  == IF s # <<>> /\ Head(s) \in {"+", "-"} THEN Tail(s) ELSE s
    IN  IF ds # <<>> /\ AllDigits(ds)
           /\ AtMost(ds, IF neg THEN I32MinDigits ELSE I32MaxDigits)
        THEN [ok |-> TRUE, v |-> IF neg THEN 0 - DigitsValue(ds) ELSE DigitsValue(ds)]
        ELSE [ok |-> FALSE]

RECURSIVE StripTrailingZeros(_)
StripTrailingZeros(ds) ==
    IF ds # <<>> /\ ds[Len(ds)] = "0"
    THEN StripTrailingZeros(SubSeq(ds, 1, Len(ds) - 1))
    ELSE ds

\* <f32 as FromStr>::from_str on texts without an exponent, "inf" or "NaN"
\* (the cells of the model hold none): an optional sign, digits, an optional
\* point and digits, with a digit on at least one side of the point.  The
\* value is the decimal read, as its sign, whole part and fraction digits.
ParseF32(s) ==
    LET neg  == s # <<>> /\ Head(s) = "-"
        body == IF s # <<>> /\ Head(s) \in {"+", "-"} THEN Tail(s) ELSE s
        n    == LeadingDigits(body, Len(body))
        int  == SubSeq(body, 1, n)
        rest == SubSeq(body, n + 1, Len(body))
        frac == IF rest # <<>> /\ Head(rest) = "." THEN Tail(rest) ELSE <<>>
    IN  IF /\ (rest = <<>> \/ Head(rest) = ".")
           /\ AllDigits(frac)
           /\ Len(int) + Len(frac) > 0
        THEN [ok |-> TRUE,
              v |-> [neg |-> neg, whole |-> DigitsValue(int),
                     frac |-> StripTrailingZeros(frac)]]
        ELSE [ok |-> FALSE]

None == [none |-> TRUE]

Some(v) == [some |-> v]

\* StringRecord::get: the cell at a zero based index, if the row has it
Get(record, i) == IF i < Len(record) THEN Some(record[i + 1]) ELSE None

----------------------------------------------------------------------------
(* normalize and to_record *)

TextOr(cell) == IF cell = None THEN <<>> ELSE cell.some

CountOr(cell) ==
    IF cell = None THEN 0
    ELSE IF ParseU32(cell.some).ok THEN ParseU32(cell.some).v ELSE 0

FloatOr(cell) ==
    IF cell = None THEN None
    ELSE IF ParseF32(cell.some).ok THEN Some(ParseF32(cell.some).v) ELSE None

\* normalize with the deaths column read from the confirmed column's index
normalize_DeathsFromConfirmed(record) ==
    [province  |-> TextOr(Get(record, 0)),
     country   |-> TextOr(Get(record, 1)),
     updated   |-> TextOr(Get(record, 2)),
     confirmed |-> CountOr(Get(record, 3)),
     deaths    |-> CountOr(Get(record, 3)),
     recovered |-> CountOr(Get(record, 5)),
     lat       |-> FloatOr(Get(record, 6)),
     long      |-> FloatOr(Get(record, 7))]

normalize(record) ==
    [province  |-> TextOr(Get(record, 0)),
     country   |-> TextOr(Get(record, 1)),
     updated   |-> TextOr(Get(record, 2)),
     confirmed |-> CountOr(Get(record, 3)),
     deaths    |-> CountOr(Get(record, 4)),
     recovered |-> CountOr(Get(record, 5)),
     lat       |-> FloatOr(Get(record, 6)),
     long      |-> FloatOr(Get(record, 7))]

to_record(record) ==
    [province  |-> record.province,
     country   |-> record.country,
     updated   |-> parse_date(record.updated),
     confirmed |-> record.confirmed,
     deaths    |-> record.deaths,
     recovered |-> record.recovered,
     lat       |-> record.lat,
     long      |-> record.long]

----------------------------------------------------------------------------
(* The texts parse_date is called with, and the call *)

NotCalled == [none |-> TRUE]

\* the ways a text is written: the four documented layouts, the layout
\* MM/DDYY HH:MM, and two malformed ones
Shapes == {"iso_T", "iso_space", "us_yy", "us_yyyy", "us_noslash", "iso_nosep", "date_only"}

GenYears == {0, 4, 20, 69, 70, 99, 1900, 1996, 1999, 2000, 2020, 2100}

GenMonths == {1, 2, 12, 13}

GenDays == {1, 22, 29, 30}

GenTimes ==
    { [hour |-> 17, minute |-> 0,  second |-> 0],
      [hour |-> 23, minute |-> 59, second |-> 59],
      [hour |-> 23, minute |-> 59, second |-> 60],
      [hour |-> 24, minute |-> 0,  second |-> 0],
      [hour |-> 7,  minute |-> 60, second |-> 0] }

\* layouts with a four digit year take every year, a two digit year is below
\* 100; layouts without a seconds field are written from a time on the minute
Sources ==
    { g \in [shape : Shapes, year : GenYears, month : GenMonths, day : GenDays,
             time : GenTimes, pad : BOOLEAN] :
        /\ (g.shape \in {"us_yy", "us_noslash"} => g.year < 100)
        /\ (g.shape \in {"us_yy", "us_yyyy", "us_noslash"} =>
                g.time.second = 0)
        /\ (g.shape \notin {"us_yy", "us_yyyy"} => g.pad) }

HourMinute(g) == Pad(g.time.hour, 2) \o <<":">> \o Pad(g.time.minute, 2)

HourMinuteSecond(g) == HourMinute(g) \o <<":">> \o Pad(g.time.second, 2)

IsoDate(g) ==
    Pad(g.year, 4) \o <<"-">> \o Pad(g.month, 2) \o <<"-">> \o Pad(g.day, 2)

MonthDay(g) ==
    LET w == IF g.pad THEN 2 ELSE 1
    IN  Pad(g.month, w) \o <<"/">> \o Pad(g.day, w)

\* the text of a source
Written(g) ==
    CASE g.shape = "iso_T"      -> IsoDate(g) \o <<"T">> \o HourMinuteSecond(g)
      [] g.shape = "iso_space"  -> IsoDate(g) \o <<" ">> \o HourMinuteSecond(g)
      [] g.shape = "us_yy"      ->
            MonthDay(g) \o <<"/">> \o Pad(g.year, 2) \o <<" ">> \o HourMinute(g)
      [] g.shape = "us_yyyy"    ->
            MonthDay(g) \o <<"/">> \o Pad(g.year, 4) \o <<" ">> \o HourMinute(g)
      [] g.shape = "us_noslash" ->
            MonthDay(g) \o Pad(g.year, 2) \o <<" ">> \o HourMinute(g)
      [] g.shape = "iso_nosep"  -> IsoDate(g) \o HourMinuteSecond(g)
      [] g.shape = "date_only"  -> IsoDate(g)

\* texts that are in none of the layouts above
OtherTexts ==
    { <<>>,
      <<"x">>,
      <<" ">>,
      <<"2", "0", "2", "0">>,
      <<"+", "2", "0", "2", "0", "-", "0", "2", "-", "2", "9", "T", "1", "0", ":", "0", "0", ":", "0", "0">>,
      <<"-", "4", "-", "0", "2", "-", "2", "9", "T", "1", "0", ":", "0", "0", ":", "0", "0">>,
      <<"2", "0", "2", "0", "-", "0", "1", "-", "2", "2", "T", "1", "7", ":", "0", "0", ":", "0", "0", "Z">>,
      <<"2", "0", "2", "0", "-", " ", "1", "-", "2", "2", "T", "1", "7", ":", "0", "0", ":", "0", "0">>,
      <<"1", "/", "2", "2", "/", "2", "0", "2", "0", " ", " ", "1", "7", ":", "0", "0">>,
      <<"2", "2", ".", "0", "1", ".", "2", "0", "2", "0", " ", "1", "7", ":", "0", "0">> }

NoSource == [shape |-> "other"]

IdleParseDate ==
    pd_s = <<>> /\ pd_src = NoSource /\ pd_ret = NotCalled /\ pd_pc = "idle"

IdleNormalize == nr_row = <<>> /\ nr_rec = NotCalled /\ nr_pc = "idle"

IdleSeriesRow ==
    /\ ts_row = <<>> /\ ts_index = 0 /\ ts_date = NotCalled
    /\ ts_data = NotCalled /\ ts_pc = "idle"

IdleGetDates ==
    /\ gd_clock = NotCalled /\ gd_now = NotCalled /\ gd_date = NotCalled
    /\ gd_dates = <<>> /\ gd_pc = "idle"

IdleAggregation ==
    /\ ag_op = "idle" /\ ag_pc = "idle" /\ ag_i = 0 /\ ag_inflight = {}
    /\ ag_data = <<>> /\ ag_j = 0 /\ ag_map = <<>> /\ ag_series = <<>>
    /\ ag_ret = "running" /\ ag_printed = <<>> /\ ag_log = <<>>
    /\ ag_made = <<>> /\ ag_errs = 0

InitParseDate ==
    /\ \/ \E g \in Sources : pd_src = g /\ pd_s = Written(g)
       \/ pd_src = NoSource /\ pd_s \in OtherTexts
    /\ pd_ret = NotCalled
    /\ pd_pc = "call"
    /\ IdleNormalize /\ IdleSeriesRow /\ IdleGetDates /\ IdleAggregation

CallParseDate ==
    /\ pd_pc = "call"
    /\ pd_ret' = parse_date(pd_s)
    /\ pd_pc' = "done"
    /\ UNCHANGED <<pd_s, pd_src, nr_vars, ts_vars, gd_vars, ag_vars>>

NextParseDate == CallParseDate

SpecParseDate == InitParseDate /\ [][NextParseDate]_vars

----------------------------------------------------------------------------
(* Claims about parse_date *)

\* the documented layouts, written with a real calendar date and time of day
WellFormed(g) ==
    /\ g.shape \in {"iso_T", "iso_space", "us_yy", "us_yyyy"}
    /\ IsValidDate(g.year, g.month, g.day)
    /\ g.time.hour \in 0..23 /\ g.time.minute \in 0..59 /\ g.time.second \in 0..59

\* the date and time a well formed source encodes, a two digit year yy being 20yy
Encoded(g) ==
    [year |-> IF g.shape = "us_yy" THEN 2000 + g.year ELSE g.year,
     month |-> g.month, day |-> g.day,
     hour |-> g.time.hour, minute |-> g.time.minute, second |-> g.time.second,
     leap |-> FALSE]

\* the four patterns as the documentation lists them: the third is
\* MM/DD/YY HH:MM, its year a number of at most two digits
StatedItems ==
    << FormatItems[1],
       FormatItems[2],
       << NumericItem("m"), [k |-> "lit", c |-> "/"], NumericItem("d"),
          [k |-> "lit", c |-> "/"],
          [k |-> "num", f |-> "Y", w |-> 2, signed |-> FALSE],
          [k |-> "space"], NumericItem("H"), [k |-> "lit", c |-> ":"],
          NumericItem("M") >>,
       FormatItems[4] >>

\* C2: parse_date returns the result of the first of the four documented
\* patterns (YYYY-MM-DDTHH:MM:SS, YYYY-MM-DD HH:MM:SS, MM/DD/YY HH:MM,
\* MM/DD/YYYY HH:MM) that parses its argument, and a text correctly written
\* in one of them yields exactly the date and time it encodes.
C2_FirstStatedPatternExact ==
    pd_pc = "done" =>
        /\ pd_ret = ParseDateWith(pd_s, StatedItems)
        /\ (pd_src # NoSource /\ WellFormed(pd_src) => pd_ret = Encoded(pd_src))

\* C3: when a pattern matches with a parsed year y below 2000 the result has
\* year y + 2000, the parsed month, day, hour, minute and second, and is a
\* real calendar date; with a year of 2000 or more the parsed value is
\* returned unchanged.
C3_YearCorrection ==
    pd_pc = "done" =>
        \A k \in 1..Len(Formats) :
            k = FirstMatch(pd_s, FormatItems, 1) =>
                LET t == parse_from_str(pd_s, Formats[k]).t
                IN  IF t.year < 2000
                    THEN /\ pd_ret # Panic
                         /\ pd_ret.year = t.year + 2000
                         /\ pd_ret.month = t.month /\ pd_ret.day = t.day
                         /\ pd_ret.hour = t.hour /\ pd_ret.minute = t.minute
                         /\ pd_ret.second = t.second
                         /\ IsValidDate(pd_ret.year, pd_ret.month, pd_ret.day)
                    ELSE pd_ret = t

\* a 29 February read with a year below 2000 has been moved 2000 years on
C3_Witness ==
    /\ pd_pc = "done"
    /\ \E k \in 1..Len(Formats) :
          /\ k = FirstMatch(pd_s, FormatItems, 1)
          /\ parse_from_str(pd_s, Formats[k]).t.year < 2000
          /\ parse_from_str(pd_s, Formats[k]).t.second # 0
    /\ pd_ret # Panic
    /\ pd_ret.month = 2 /\ pd_ret.day = 29

\* C4: parse_date returns a date-time for every argument and never panics;
\* when none of its four patterns parses the argument the result is
\* 1970-01-01T00:00:00.
C4_TotalWithSentinel ==
    pd_pc = "done" =>
        /\ pd_ret # Panic
        /\ IsValidDate(pd_ret.year, pd_ret.month, pd_ret.day)
        /\ pd_ret.hour \in 0..23 /\ pd_ret.minute \in 0..59 /\ pd_ret.second \in 0..59
        /\ ((\A i \in 1..Len(Formats) : ~parse_from_str(pd_s, Formats[i]).ok) =>
                pd_ret = [year |-> 1970, month |-> 1, day |-> 1,
                          hour |-> 0, minute |-> 0, second |-> 0, leap |-> FALSE])

\* the empty text, which stands for a missing cell, has given the sentinel
C4_Witness ==
    /\ pd_pc = "done"
    /\ pd_s = <<>>
    /\ pd_ret # Panic
    /\ pd_ret.year = 1970

----------------------------------------------------------------------------
(* The rows normalize is called with, and the call *)

\* the longest row, in cells
MaxCells == 9

\* the most cells of a row that differ from the row of the well formed report
MaxEdits == 2

TextHubei == <<"H", "u", "b", "e", "i">>

TextChina == <<"C", "h", "i", "n", "a">>

TextItaly == <<"I", "t", "a", "l", "y">>

TextUpdated ==
    <<"2", "0", "2", "0", "-", "0", "1", "-", "2", "2", "T", "1", "7", ":", "0", "0", ":", "0", "0">>

\* a row of a well formed daily report; any further cell holds "x"
BaseCell(c) ==
    CASE c = 1 -> TextHubei
      [] c = 2 -> TextChina
      [] c = 3 -> TextUpdated
      [] c = 4 -> <<"4", "4", "4">>
      [] c = 5 -> <<"1", "7">>
      [] c = 6 -> <<"2", "8">>
      [] c = 7 -> <<"3", "0", ".", "9", "7", "5">>
      [] c = 8 -> <<"1", "1", "2", ".", "2", "7">>
      [] OTHER -> <<"x">>

TextAlts == {<<>>, TextItaly}

UpdatedAlts ==
    {<<>>, <<"x">>, <<"1", "/", "2", "2", "/", "2", "0", " ", "1", "7", ":", "0", "0">>}

CountAlts ==
    {<<>>, <<"-", "1">>, <<"+", "7">>, <<"0", "0", "7">>, <<"1", ".", "5">>, <<" ", "5">>,
     <<"4", "2", "9", "4", "9", "6", "7", "2", "9", "6">>}

FloatAlts ==
    {<<>>, <<"x">>, <<"-", "1", "2", ".", "5">>, <<".", "5">>, <<"5", ".">>, <<".">>,
     <<"+">>, <<"1", ".", "2", ".", "3">>, <<"1", "7">>}

Alts(c) ==
    CASE c \in {1, 2} -> TextAlts
      [] c = 3 -> UpdatedAlts
      [] c \in {4, 5, 6} -> CountAlts
      [] c \in {7, 8} -> FloatAlts
      [] OTHER -> {<<>>}

\* the rows: a prefix of the well formed row with at most MaxEdits cells
\* replaced by an alternative of their column
NormRows ==
    { [c \in 1..n |-> IF c \in DOMAIN e THEN e[c] ELSE BaseCell(c)] :
        n \in 0..MaxCells,
        e \in UNION { { f \in [S -> UNION {Alts(c) : c \in S}] :
                            \A c \in S : f[c] \in Alts(c) } :
                      S \in { T \in SUBSET (1..8) : Cardinality(T) <= MaxEdits } } }

InitNormalize ==
    /\ nr_row \in NormRows
    /\ nr_rec = NotCalled
    /\ nr_pc = "call"
    /\ IdleParseDate /\ IdleSeriesRow /\ IdleGetDates /\ IdleAggregation

\* the body of the row loop of get_data_from
CallNormalize ==
    /\ nr_pc = "call"
    /\ nr_rec' = to_record(normalize(nr_row))
    /\ nr_pc' = "done"
    /\ UNCHANGED <<nr_row, pd_vars, ts_vars, gd_vars, ag_vars>>

NextNormalize == CallNormalize

SpecNormalize == InitNormalize /\ [][NextNormalize]_vars

----------------------------------------------------------------------------
(* Claims about normalize and to_record *)

\* C5: for a row of any length a record is produced; each field comes from
\* its own column (province, country, updated, confirmed, deaths, recovered,
\* lat, long), a missing cell counting as an empty one: text is copied, a
\* count or coordinate that does not parse is 0 or absent, updated is
\* parse_date of the cell.  The row Hubei, China, 2020-01-22T17:00:00 gives
\* counts 0, no coordinates and updated 2020-01-22T17:00:00.
C5_RowNormalizer ==
    nr_pc = "done" =>
        LET cell(c)  == IF c <= Len(nr_row) THEN nr_row[c] ELSE <<>>
            count(c) == IF ParseU32(cell(c)).ok THEN ParseU32(cell(c)).v ELSE 0
            coord(c) == IF ParseF32(cell(c)).ok THEN Some(ParseF32(cell(c)).v) ELSE None
        IN  /\ nr_rec.province = cell(1)
            /\ nr_rec.country = cell(2)
            /\ nr_rec.updated = parse_date(cell(3))
            /\ nr_rec.updated # Panic
            /\ nr_rec.confirmed = count(4)
            /\ nr_rec.deaths = count(5)
            /\ nr_rec.recovered = count(6)
            /\ nr_rec.lat = coord(7)
            /\ nr_rec.long = coord(8)
            /\ (nr_row = <<TextHubei, TextChina, TextUpdated>> =>
                    nr_rec = [province |-> TextHubei, country |-> TextChina,
                              updated |-> [year |-> 2020, month |-> 1, day |-> 22,
                                           hour |-> 17, minute |-> 0, second |-> 0,
                                           leap |-> FALSE],
                              confirmed |-> 0, deaths |-> 0, recovered |-> 0,
                              lat |-> None, long |-> None])

\* a row that ends inside the count columns, one of its counts unparseable,
\* has been given its record
C5_Witness ==
    /\ nr_pc = "done"
    /\ Len(nr_row) = 5
    /\ ~ParseU32(nr_row[4]).ok
    /\ nr_rec.confirmed = 0 /\ nr_rec.deaths = 17 /\ nr_rec.recovered = 0
    /\ nr_rec.long = None

----------------------------------------------------------------------------
(* The row loop of get_time_series *)

\* succ with February always 28 days long
succ_NoLeapDay(date) ==
    IF date.day < (IF date.month = 2 THEN 28 ELSE DaysInMonth(date.year, date.month))
    THEN [date EXCEPT !.day = date.day + 1]
    ELSE IF date.month < 12
    THEN [date EXCEPT !.month = date.month + 1, !.day = 1]
    ELSE [year |-> date.year + 1, month |-> 1, day |-> 1]

\* NaiveDate::succ: the next calendar day
succ(date) ==
    IF date.day < DaysInMonth(date.year, date.month)
    THEN [date EXCEPT !.day = date.day + 1]
    ELSE IF date.month < 12
    THEN [date EXCEPT !.month = date.month + 1, !.day = 1]
    ELSE [year |-> date.year + 1, month |-> 1, day |-> 1]

\* NaiveDate's Display: YYYY-MM-DD
DateToString(date) ==
    Pad(date.year, 4) \o <<"-">> \o Pad(date.month, 2) \o <<"-">> \o Pad(date.day, 2)

\* the date both loops start from
StartDate == from_ymd(2020, 1, 22)

\* BTreeMap::insert and BTreeMap::remove on a map from date text to number
Insert(data, key, v) == (key :> v) @@ data

Remove(data, key) == [k \in DOMAIN data \ {key} |-> data[k]]

EmptyMap == [k \in {} |-> 0]

\* one iteration with the date held back when the column is dropped
RowStep_DateHeldOnGap(result, index, date, data) ==
    LET cell == Get(result, index)
    IN  IF cell = None
        THEN [brk |-> TRUE, index |-> index, date |-> date, data |-> data]
        ELSE LET v == IF ParseI32(cell.some).ok THEN ParseI32(cell.some).v ELSE 0 - 1
             IN  IF v < 0
                 THEN [brk |-> FALSE, index |-> index + 1, date |-> date, data |-> data]
                 ELSE [brk |-> FALSE, index |-> index + 1, date |-> succ(date),
                       data |-> Insert(data, DateToString(date), v)]

\* one iteration of the loop: an absent column breaks out of it; otherwise
\* the number read, or -1, is inserted under the date's text and removed
\* again if negative, and index and date both advance
RowStep(result, index, date, data) ==
    LET cell == Get(result, index)
    IN  IF cell = None
        THEN [brk |-> TRUE, index |-> index, date |-> date, data |-> data]
        ELSE LET key  == DateToString(date)
                 v    == IF ParseI32(cell.some).ok THEN ParseI32(cell.some).v ELSE 0 - 1
                 ins  == Insert(data, key, v)
                 kept == IF ins[key] < 0 THEN Remove(ins, key) ELSE ins
             IN  [brk |-> FALSE, index |-> index + 1, date |-> succ(date), data |-> kept]

----------------------------------------------------------------------------
(* The rows the loop is run on, and the run *)

\* the most date columns of a row whose cells are chosen freely
MaxDateCols == 3

\* the date columns of the long rows, which run from January into March
LongCols == 45

SeriesPrefix ==
    << <<>>, TextItaly, <<"4", "1", ".", "8", "7">>, <<"1", "2", ".", "5", "6">> >>

SeriesCells ==
    { <<"0">>, <<"3">>, <<"-", "1">>, <<>>, <<"x">>, <<"+", "5">>, <<"-", "0">>,
      <<"2", "1", "4", "7", "4", "8", "3", "6", "4", "7">>,
      <<"2", "1", "4", "7", "4", "8", "3", "6", "4", "8">> }

\* the row of the documented example
ItalyRow == SeriesPrefix \o << <<"0">>, <<"0">>, <<"-", "1">>, <<"3">> >>

\* long rows: every column filled, or every second or third one empty
LongRows ==
    { SeriesPrefix \o [j \in 1..LongCols |-> IF p > 1 /\ j % p = 0 THEN <<>> ELSE Pad(j, 1)] :
        p \in 1..3 }

SeriesRows ==
    { SubSeq(SeriesPrefix, 1, n) : n \in 0..3 }
    \cup { SeriesPrefix \o cells :
             cells \in UNION { [1..k -> SeriesCells] : k \in 0..MaxDateCols } }
    \cup LongRows
    \cup {ItalyRow}

\* the row read and index, date and data set up before the loop
InitSeriesRow ==
    /\ ts_row \in SeriesRows
    /\ ts_index = 4
    /\ ts_date = StartDate
    /\ ts_data = EmptyMap
    /\ ts_pc = "loop"
    /\ IdleParseDate /\ IdleNormalize /\ IdleGetDates /\ IdleAggregation

LoopIteration ==
    /\ ts_pc = "loop"
    /\ LET r == RowStep(ts_row, ts_index, ts_date, ts_data)
       IN  /\ ts_index' = r.index
           /\ ts_date' = r.date
           /\ ts_data' = r.data
           /\ ts_pc' = IF r.brk THEN "done" ELSE "loop"
    /\ UNCHANGED <<ts_row, pd_vars, nr_vars, gd_vars, ag_vars>>

NextSeriesRow == LoopIteration

SpecSeriesRow == InitSeriesRow /\ [][NextSeriesRow]_vars

----------------------------------------------------------------------------
(* Claims about the row loop *)

\* days before each month of a common year
DaysBeforeMonth == <<0, 31, 59, 90, 120, 151, 181, 212, 243, 273, 304, 334>>

\* the day's number in the proleptic Gregorian calendar
DayNumber(date) ==
    LET y == date.year - 1
    IN  365 * y + (y \div 4) - (y \div 100) + (y \div 400)
        + DaysBeforeMonth[date.month]
        + (IF date.month > 2 /\ IsLeapYear(date.year) THEN 1 ELSE 0)
        + date.day

DatesOf2020 ==
    { [year |-> 2020, month |-> m, day |-> d] : m \in 1..12, d \in 1..31 }

\* 2020-01-22 plus k days
DayAfterStart(k) ==
    CHOOSE d \in DatesOf2020 :
        /\ IsValidDate(d.year, d.month, d.day)
        /\ DayNumber(d) = DayNumber([year |-> 2020, month |-> 1, day |-> 22]) + k

\* C1: the data mapping of a row with n cells is exactly
\* { 2020-01-22 + (N-4) days -> v_N : 4 <= N < n and v_N >= 0 }, v_N being
\* cell N read as a signed integer, or -1 if it does not parse: a dropped
\* column never shifts the date of a later one (before every iteration the
\* date is 2020-01-22 plus index - 4 days), and the loop ends at the first
\* absent column.  The example row gives 2020-01-22 -> 0, 2020-01-23 -> 0,
\* 2020-01-25 -> 3.
C1_SeriesAlignment ==
    ts_pc \in {"loop", "done"} =>
        LET n      == Len(ts_row)
            v(N)   == IF ParseI32(ts_row[N + 1]).ok THEN ParseI32(ts_row[N + 1]).v
                      ELSE 0 - 1
            key(N) == DateToString(DayAfterStart(N - 4))
            kept   == {N \in 4..(ts_index - 1) : v(N) >= 0}
        IN  /\ ts_index <= IF n < 4 THEN 4 ELSE n
            /\ ts_date = DayAfterStart(ts_index - 4)
            /\ DOMAIN ts_data = {key(N) : N \in kept}
            /\ \A N \in kept : ts_data[key(N)] = v(N)
            /\ (ts_pc = "done" => ts_index >= n)
            /\ (ts_pc = "done" /\ ts_row = ItalyRow =>
                  ts_data =
                     (<<"2", "0", "2", "0", "-", "0", "1", "-", "2", "2">> :> 0)
                  @@ (<<"2", "0", "2", "0", "-", "0", "1", "-", "2", "3">> :> 0)
                  @@ (<<"2", "0", "2", "0", "-", "0", "1", "-", "2", "5">> :> 3))

\* a row whose columns 4 and 5 are dropped and whose column 6 is kept has been
\* built: its one entry is under the third date
C1_Witness ==
    /\ ts_pc = "done"
    /\ Len(ts_row) = 7
    /\ ~ParseI32(ts_row[5]).ok
    /\ ParseI32(ts_row[6]).ok /\ ParseI32(ts_row[6]).v < 0
    /\ ParseI32(ts_row[7]).ok /\ ParseI32(ts_row[7]).v > 0
    /\ DOMAIN ts_data = {<<"2", "0", "2", "0", "-", "0", "1", "-", "2", "4">>}

----------------------------------------------------------------------------
(* get_dates *)

\* the clock's date is at most this many days before 2020-01-22
ClockEarly == 3

\* the clock's date is at most this many days after 2020-01-22
ClockLate == 42

\* the calendar of the model ends this many days after 2020-01-22; it stands
\* for the last date NaiveDate holds, after which succ panics
HorizonDays == 50

LastDate == DayAfterStart(HorizonDays)

Clocks == { DayAfterStart(k) : k \in (0 - ClockEarly)..ClockLate }

\* dates, date and now as the loop finds them: now is the day after the
\* clock's date
EnterGetDates(clock) ==
    /\ gd_clock = clock
    /\ gd_now = succ(from_ymd(clock.year, clock.month, clock.day))
    /\ gd_date = StartDate
    /\ gd_dates = <<>>
    /\ gd_pc = "loop"

\* the loop test, and one pass of the body
DatesLoop ==
    /\ gd_pc = "loop"
    /\ IF gd_date = gd_now
       THEN gd_pc' = "done" /\ UNCHANGED <<gd_date, gd_dates>>
       ELSE /\ gd_dates' = Append(gd_dates, gd_date)
            /\ IF gd_date = LastDate
               THEN gd_pc' = "panicked" /\ UNCHANGED gd_date
               ELSE gd_pc' = "loop" /\ gd_date' = succ(gd_date)
    /\ UNCHANGED <<gd_clock, gd_now>>

InitDates ==
    /\ \E clock \in Clocks : EnterGetDates(clock)
    /\ IdleParseDate /\ IdleNormalize /\ IdleSeriesRow /\ IdleAggregation

NextDates == DatesLoop /\ UNCHANGED <<pd_vars, nr_vars, ts_vars, ag_vars>>

SpecDates == InitDates /\ [][NextDates]_vars

----------------------------------------------------------------------------
(* Claims about get_dates *)

StartDay == DayNumber([year |-> 2020, month |-> 1, day |-> 22])

\* the list is the consecutive calendar dates from 2020-01-22 to the date
\* last, in ascending order
ConsecutiveFromStartTo(dates, last) ==
    /\ Len(dates) = DayNumber(last) - StartDay + 1
    /\ \A i \in 1..Len(dates) :
          /\ IsValidDate(dates[i].year, dates[i].month, dates[i].day)
          /\ DayNumber(dates[i]) = StartDay + i - 1
    /\ dates # <<>>
    /\ dates[Len(dates)] = last

\* C8 as stated: the list get_dates returns is the consecutive calendar
\* dates from 2020-01-22 on; it always ends with the clock's date and holds
\* no later date.
C8_AlwaysEndsToday ==
    gd_pc = "done" => ConsecutiveFromStartTo(gd_dates, gd_clock)

\* C8: when the clock's date is 2020-01-22 or later, the list get_dates
\* returns is the consecutive calendar dates from 2020-01-22 to the clock's
\* date, which is its last element; when the clock's date is 2020-01-21 the
\* list is empty.
C8_DatesUpToToday ==
    gd_pc = "done" =>
        /\ DayNumber(gd_clock) >= StartDay - 1
        /\ (DayNumber(gd_clock) >= StartDay =>
                ConsecutiveFromStartTo(gd_dates, gd_clock))
        /\ (DayNumber(gd_clock) = StartDay - 1 => gd_dates = <<>>)

\* the list has been returned on 2020-03-01, after the leap day
C8_Witness ==
    /\ gd_pc = "done"
    /\ gd_clock = [year |-> 2020, month |-> 3, day |-> 1]
    /\ Len(gd_dates) = 40
    /\ gd_dates[39] = [year |-> 2020, month |-> 2, day |-> 29]

\* C10: whatever date the clock reports, also one before 2020-01-22, the
\* loop of get_dates ends and a list is returned: while the loop runs its
\* date has not passed now, and succ never runs off the calendar.
C10_LoopReturns ==
    /\ (gd_pc = "loop" => DayNumber(gd_date) <= DayNumber(gd_now))
    /\ gd_pc # "panicked"

----------------------------------------------------------------------------
(* get_data, get_data_from, get_series and get_time_series *)

\* the most lines, header included, of a daily report
MaxLines == 3

\* the most lines, header included, of a time series file
MaxSeriesLines == 3

\* the metrics, in the order of the loop of get_time_series
Metrics == <<"Confirmed", "Deaths", "Recovered">>

\* the clock's dates get_data is run on: the list of dates has 0, 1 or 2 dates
AggClocks == {DayAfterStart(0 - 1), DayAfterStart(0), DayAfterStart(1)}

\* the lines of the daily reports: two rows of eight cells, of China and of
\* Italy, and one of three cells; the first line of a report is its header
DailyLines ==
    { [c \in 1..8 |-> BaseCell(c)],
      [c \in 1..8 |-> IF c = 1 THEN <<>> ELSE IF c = 2 THEN TextItaly ELSE BaseCell(c)],
      <<TextHubei, TextChina, TextUpdated>> }

\* the lines of the time series files: Italy with three date columns, Hubei
\* with three date columns, and a line of five cells
SeriesLines ==
    { SeriesPrefix \o << <<"0">>, <<"-", "1">>, <<"3">> >>,
      <<TextHubei, TextChina, <<"3", "0", ".", "9">>, <<"x">>, <<"4">>, <<>>, <<"5">> >>,
      SeriesPrefix \o << <<"2">> >> }

Bodies(lines, max) == UNION { [1..n -> lines] : n \in 0..max }

\* the csv reader: the first line is the header and is not a record; a record
\* whose number of fields differs from the header's is an error.  The records
\* read before the first error, and whether there was one.
RECURSIVE ReadRecords(_, _)
ReadRecords(width, lines) ==
    IF lines = <<>> THEN [ok |-> TRUE, rows |-> <<>>]
    ELSE IF Len(Head(lines)) # width THEN [ok |-> FALSE, rows |-> <<>>]
    ELSE LET r == ReadRecords(width, Tail(lines))
         IN  [ok |-> r.ok, rows |-> <<Head(lines)>> \o r.rows]

Records(body) ==
    IF body = <<>> THEN [ok |-> TRUE, rows |-> <<>>]
    ELSE ReadRecords(Len(Head(body)), Tail(body))

\* date.format("%m-%d-%Y"), the name of the daily report
DailyName(date) ==
    Pad(date.month, 2) \o <<"-">> \o Pad(date.day, 2) \o <<"-">> \o Pad(date.year, 4)

\* the dates or metrics of the outer loop
Items == IF ag_op = "get_data" THEN gd_dates ELSE Metrics

\* the request for a date's daily report or for a metric's time series
Request(item) ==
    IF ag_op = "get_data"
    THEN [base |-> "URL_DAILY_REPORT", name |-> DailyName(item)]
    ELSE [base |-> "URL_TIME_SERIES", name |-> item]

\* the loop of a row of get_time_series run to its break
RECURSIVE RunRowLoop(_, _, _, _)
RunRowLoop(result, index, date, data) ==
    LET r == RowStep(result, index, date, data)
    IN  IF r.brk THEN r.data ELSE RunRowLoop(result, r.index, r.date, r.data)

\* the record get_time_series builds from a row of the metric state
TimeSeries(result, state) ==
    [province |-> TextOr(Get(result, 0)),
     country  |-> TextOr(Get(result, 1)),
     lat      |-> FloatOr(Get(result, 2)),
     long     |-> FloatOr(Get(result, 3)),
     data     |-> RunRowLoop(result, 4, StartDate, EmptyMap),
     state    |-> state]

\* entry(country).or_insert(Vec::new()) replaced by an insert of a new vector
PushToEntry_Overwrite(map, e) == (e.country :> <<e>>) @@ map

\* map.entry(e.country).or_insert(Vec::new()).push(e)
PushToEntry(map, e) ==
    IF e.country \in DOMAIN map
    THEN [map EXCEPT ![e.country] = Append(@, e)]
    ELSE (e.country :> <<e>>) @@ map

\* the records of a list with the positions they come from (ghost)
Tagged(recs, i) == [k \in 1..Len(recs) |-> [rec |-> recs[k], item |-> i, row |-> k]]

EnterGetData(clock) ==
    /\ ag_op = "get_data" /\ ag_pc = "dates"
    /\ EnterGetDates(clock)
    /\ ag_i = 1 /\ ag_inflight = {} /\ ag_data = <<>> /\ ag_j = 0
    /\ ag_map = EmptyMap /\ ag_series = <<>>
    /\ ag_ret = "running" /\ ag_printed = <<>>
    /\ ag_log = <<>> /\ ag_made = <<>> /\ ag_errs = 0

EnterGetSeries ==
    /\ ag_op = "get_series" /\ ag_pc = "next"
    /\ IdleGetDates
    /\ ag_i = 1 /\ ag_inflight = {} /\ ag_data = <<>> /\ ag_j = 0
    /\ ag_map = EmptyMap /\ ag_series = <<>>
    /\ ag_ret = "running" /\ ag_printed = <<>>
    /\ ag_log = <<>> /\ ag_made = <<>> /\ ag_errs = 0

InitAgg ==
    /\ \/ \E clock \in AggClocks : EnterGetData(clock)
       \/ EnterGetSeries
    /\ IdleParseDate /\ IdleNormalize /\ IdleSeriesRow

\* get_data: get_dates() runs before the outer loop starts
AggGetDates ==
    /\ ag_pc = "dates"
    /\ DatesLoop
    /\ ag_pc' = CASE gd_pc' = "done" -> "next"
                  [] gd_pc' = "panicked" -> "panicked"
                  [] OTHER -> "dates"
    /\ UNCHANGED <<ag_op, ag_i, ag_inflight, ag_data, ag_j, ag_map, ag_series,
                   ag_ret, ag_printed, ag_log, ag_made, ag_errs,
                   pd_vars, nr_vars, ts_vars>>

\* the request sent while the records of the answer before it are still
\* being pushed
IssueFetch_BeforeAppend ==
    /\ ag_pc \in {"next", "pushing"}
    /\ LET i == IF ag_pc = "pushing" THEN ag_i + 1 ELSE ag_i
       IN  /\ i <= Len(Items)
           /\ ag_i' = i
           /\ ag_inflight' = ag_inflight \cup {Request(Items[i])}
           /\ ag_log' = Append(ag_log, Request(Items[i]))
    /\ ag_pc' = "fetching"
    /\ UNCHANGED <<ag_op, ag_data, ag_j, ag_map, ag_series, ag_ret,
                   ag_printed, ag_made, ag_errs, gd_vars, pd_vars, nr_vars, ts_vars>>

\* the outer loop takes its next date or metric and reqwest::get sends the
\* request; the function waits for the answer
IssueFetch ==
    /\ ag_pc = "next"
    /\ ag_i <= Len(Items)
    /\ ag_inflight' = ag_inflight \cup {Request(Items[ag_i])}
    /\ ag_log' = Append(ag_log, Request(Items[ag_i]))
    /\ ag_pc' = "fetching"
    /\ UNCHANGED <<ag_op, ag_i, ag_data, ag_j, ag_map, ag_series, ag_ret,
                   ag_printed, ag_made, ag_errs, gd_vars, pd_vars, nr_vars, ts_vars>>

\* a failed fetch skipped: the loop goes on with the next date or metric
FetchFails_Skipped ==
    /\ ag_pc = "fetching"
    /\ ag_inflight' = {}
    /\ ag_errs' = ag_errs + 1
    /\ ag_i' = ag_i + 1
    /\ ag_pc' = "next"
    /\ UNCHANGED <<ag_op, ag_data, ag_j, ag_map, ag_series, ag_ret, ag_printed,
                   ag_log, ag_made, gd_vars, pd_vars, nr_vars, ts_vars>>

\* the request or the reading of its text fails: the ? operators return the
\* error from get_data_from and get_data, or get_time_series and get_series
FetchFails ==
    /\ ag_pc = "fetching"
    /\ ag_inflight' = {}
    /\ ag_errs' = ag_errs + 1
    /\ ag_ret' = "Err"
    /\ ag_pc' = "failed"
    /\ UNCHANGED <<ag_op, ag_i, ag_data, ag_j, ag_map, ag_series, ag_printed,
                   ag_log, ag_made, gd_vars, pd_vars, nr_vars, ts_vars>>

\* get_data_from: the text arrives and every record is normalized; a record
\* the reader cannot read returns the error from get_data_from and get_data
DailyAnswer ==
    /\ ag_pc = "fetching" /\ ag_op = "get_data"
    /\ \E body \in Bodies(DailyLines, MaxLines) :
          LET r    == Records(body)
              data == [k \in 1..Len(r.rows) |-> to_record(normalize(r.rows[k]))]
          IN  IF r.ok
              THEN /\ ag_data' = data
                   /\ ag_j' = 1
                   /\ ag_made' = ag_made \o Tagged(data, ag_i)
                   /\ ag_pc' = "pushing"
                   /\ UNCHANGED <<ag_ret, ag_errs>>
              ELSE /\ ag_errs' = ag_errs + 1
                   /\ ag_ret' = "Err"
                   /\ ag_pc' = "failed"
                   /\ UNCHANGED <<ag_data, ag_j, ag_made>>
    /\ ag_inflight' = {}
    /\ UNCHANGED <<ag_op, ag_i, ag_map, ag_series, ag_printed, ag_log, gd_vars, pd_vars, nr_vars, ts_vars>>

\* get_data: the inner loop pushes one record of the date, or ends
PushRecord ==
    /\ ag_pc = "pushing"
    /\ IF ag_j <= Len(ag_data)
       THEN /\ ag_map' = PushToEntry(ag_map, ag_data[ag_j])
            /\ ag_j' = ag_j + 1
            /\ UNCHANGED <<ag_i, ag_pc>>
       ELSE /\ ag_i' = ag_i + 1
            /\ ag_pc' = "next"
            /\ UNCHANGED <<ag_map, ag_j>>
    /\ UNCHANGED <<ag_op, ag_inflight, ag_data, ag_series, ag_ret, ag_printed,
                   ag_log, ag_made, ag_errs, gd_vars, pd_vars, nr_vars, ts_vars>>

\* get_time_series: the text arrives and a record is pushed for every row
\* read; a row the reader cannot read returns the error from get_time_series
\* and get_series
SeriesAnswer ==
    /\ ag_pc = "fetching" /\ ag_op = "get_series"
    /\ \E body \in Bodies(SeriesLines, MaxSeriesLines) :
          LET r    == Records(body)
              recs == [k \in 1..Len(r.rows) |-> TimeSeries(r.rows[k], Metrics[ag_i])]
          IN  /\ ag_series' = ag_series \o recs
              /\ IF r.ok
                 THEN /\ ag_made' = ag_made \o Tagged(recs, ag_i)
                      /\ ag_i' = ag_i + 1
                      /\ ag_pc' = "next"
                      /\ UNCHANGED <<ag_ret, ag_errs>>
                 ELSE /\ ag_errs' = ag_errs + 1
                      /\ ag_ret' = "Err"
                      /\ ag_pc' = "failed"
                      /\ UNCHANGED <<ag_i, ag_made>>
    /\ ag_inflight' = {}
    /\ UNCHANGED <<ag_op, ag_data, ag_j, ag_map, ag_printed, ag_log, gd_vars, pd_vars, nr_vars, ts_vars>>

\* the outer loop is over: get_data prints the map; get_series prints the
\* country and the data of every record of Italy
Finish ==
    /\ ag_pc = "next"
    /\ ag_i > Len(Items)
    /\ ag_printed' =
          IF ag_op = "get_data" THEN <<ag_map>>
          ELSE LET italy == SelectSeq(ag_series, LAMBDA e : e.country = TextItaly)
               IN  [k \in 1..Len(italy) |->
                       [country |-> italy[k].country, data |-> italy[k].data]]
    /\ ag_ret' = "Ok"
    /\ ag_pc' = "done"
    /\ UNCHANGED <<ag_op, ag_i, ag_inflight, ag_data, ag_j, ag_map, ag_series,
                   ag_log, ag_made, ag_errs, gd_vars, pd_vars, nr_vars, ts_vars>>

NextAgg ==
    \/ AggGetDates
    \/ IssueFetch
    \/ FetchFails
    \/ DailyAnswer
    \/ PushRecord
    \/ SeriesAnswer
    \/ Finish

SpecAgg == InitAgg /\ [][NextAgg]_vars

----------------------------------------------------------------------------
(* Claims about the aggregation *)

\* how many of the records made have been pushed by the inner loop
Pushed ==
    IF ag_pc = "pushing" THEN Len(ag_made) - (Len(ag_data) - (ag_j - 1))
    ELSE Len(ag_made)

\* the records made come from ascending dates or metrics and, within one,
\* from ascending rows
MadeInOrder ==
    \A k, l \in 1..Len(ag_made) :
        k < l => \/ ag_made[k].item < ag_made[l].item
                 \/ /\ ag_made[k].item = ag_made[l].item
                    /\ ag_made[k].row < ag_made[l].row

\* the records of a sequence of tagged records
RecsOf(tagged) == [k \in 1..Len(tagged) |-> tagged[k].rec]

\* the map holds each of the first n records made once, under its country,
\* in the order they were made
StoredByCountry(n) ==
    LET stored == SubSeq(ag_made, 1, n)
    IN  /\ DOMAIN ag_map = {stored[k].rec.country : k \in 1..n}
        /\ \A c \in DOMAIN ag_map :
              ag_map[c] = RecsOf(SelectSeq(stored, LAMBDA e : e.rec.country = c))

IsPrefix(s, u) == Len(s) <= Len(u) /\ SubSeq(u, 1, Len(s)) = s

C6_Stored ==
    ag_op = "get_data" =>
        /\ MadeInOrder
        /\ \A k \in 1..Len(ag_made) : ag_made[k].item <= ag_i
        /\ StoredByCountry(Pushed)
        /\ (ag_pc \in {"next", "done"} =>
                /\ Pushed = Len(ag_made)
                /\ \A k \in 1..Len(ag_made) : ag_made[k].item < ag_i)

C6_Kept ==
    \A c \in DOMAIN ag_map :
        c \in DOMAIN ag_map' /\ IsPrefix(ag_map[c], ag_map'[c])

\* C6: in get_data every record made so far is stored once in the map under
\* its own country, each country's sequence holding its records in date
\* order and in row order within a date; between two dates and at the end
\* all records made are stored; no entry or record is ever removed.
C6_CountryIndex == [](C6_Stored) /\ [][C6_Kept]_vars

\* two dates have been processed, Italy had one row on each: its entry holds
\* two records
C6_Witness ==
    /\ ag_op = "get_data" /\ ag_pc = "done"
    /\ Len(gd_dates) = 2
    /\ TextItaly \in DOMAIN ag_map
    /\ Len(ag_map[TextItaly]) = 2
    /\ \E k, l \in 1..Len(ag_made) :
          /\ ag_made[k].item = 1 /\ ag_made[l].item = 2
          /\ ag_made[k].rec.country = TextItaly
          /\ ag_made[l].rec.country = TextItaly

\* C7: a failed fetch or a failed read of one date or metric ends the whole
\* operation: it fails once, returns the error, has no request outstanding,
\* sends no further request (the last one sent is the failed one), and
\* nothing is printed, before or after; an operation that printed its result
\* has had no failure.
C7_FatalFailure ==
    /\ ag_errs <= 1
    /\ (ag_errs = 1 <=> ag_pc = "failed")
    /\ (ag_pc = "failed" =>
            /\ ag_ret = "Err"
            /\ ag_printed = <<>>
            /\ ag_inflight = {}
            /\ Len(ag_log) = ag_i)
    /\ (ag_ret = "Ok" <=> ag_pc = "done")
    /\ (ag_printed # <<>> => ag_pc = "done")

\* the second date or metric has failed after records of the first were made
C7_Witness ==
    /\ ag_pc = "failed"
    /\ ag_i = 2
    /\ Len(ag_made) >= 1
    /\ ag_ret = "Err"
    /\ ag_printed = <<>>

\* C9: at most one request is outstanding; requests are sent in the order of
\* the dates (ascending from 2020-01-22) or of the metrics (Confirmed,
\* Deaths, Recovered), one per date or metric; a request is sent only after
\* every record of the answers before it was pushed; and the records are in
\* the output in the order they were made.
C9_Sequential ==
    /\ Cardinality(ag_inflight) <= 1
    /\ (ag_inflight # {} <=> ag_pc = "fetching")
    /\ Len(ag_log) <= Len(Items)
    /\ \A k \in 1..Len(ag_log) :
          ag_log[k] =
             IF ag_op = "get_data"
             THEN [base |-> "URL_DAILY_REPORT", name |-> DailyName(DayAfterStart(k - 1))]
             ELSE [base |-> "URL_TIME_SERIES",
                   name |-> <<"Confirmed", "Deaths", "Recovered">>[k]]
    /\ (ag_pc = "fetching" =>
            /\ ag_inflight = {ag_log[ag_i]}
            /\ Len(ag_log) = ag_i
            /\ Pushed = Len(ag_made)
            /\ \A k \in 1..Len(ag_made) : ag_made[k].item < ag_i)
    /\ MadeInOrder
    /\ (ag_op = "get_data" =>
            \A c \in DOMAIN ag_map :
                IsPrefix(ag_map[c],
                         RecsOf(SelectSeq(ag_made, LAMBDA e : e.rec.country = c))))
    /\ (ag_op = "get_series" /\ ag_pc # "failed" => ag_series = RecsOf(ag_made))

\* the request for the second date or metric is outstanding, and the two
\* records of the first are in the output
C9_Witness ==
    /\ ag_pc = "fetching"
    /\ ag_i = 2
    /\ Len(ag_made) = 2
    /\ Cardinality(ag_inflight) = 1

====
